---- MODULE Spec2Model ----
(***************************************************************************)
(* Model of src/app.py: the Streamlit dashboard script for the Italian     *)
(* bluefin tuna landings.  One execution of the script (load_data, the     *)
(* sidebar filters, the aggregation at lines 92-117, the KPIs and the five *)
(* tabs) is one step of the model; Streamlit re-executes the whole script  *)
(* on every widget change, so the state is the CSV file, the cache of      *)
(* load_data, the session state of the two multiselect widgets and what    *)
(* the last execution computed and displayed.                              *)
(*                                                                         *)
(* Numbers: peso_kg is an integer column of the CSV; every quotient the    *)
(* script takes (shares, means, growth) is a float, modelled as an exact   *)
(* fraction [n, d] in lowest terms with d = 0 for the IEEE specials the    *)
(* vectorised pandas division yields instead of raising: n = 1 is inf,     *)
(* n = -1 is -inf and n = 0 is NaN.                                        *)
(***************************************************************************)
EXTENDS Integers, Sequences, FiniteSets, TLC

\* ---------------------------------------------------------------- bounds

\* Largest number of data rows of a CSV file whose every cell is valid.
MaxRows == 3

\* Largest number of data rows of a CSV file with a defect: a weight that is
\* not positive, a cell of data_cattura that is empty or is not a date, or a
\* missing column.
MaxRowsDefect == 2

\* Largest number of rows of a file whose data_cattura cell is empty or is not
\* a date.
MaxNotDates == 1

\* The five columns the script reads from the CSV.
Columns == {"data_cattura", "peso_kg", "regione", "zona_FAO", "identificativo_natante"}

\* A data_cattura cell is a date written as the integer 100 * year + month,
\* or one of two cells that are not dates.
EmptyCell == 0
BadCell == -1
DateCells == {202012, 202101, 202206}
\* The peso_kg cells: the positive weights of a valid file, and the weights
\* of a file that may hold a weight that is not positive.
ValidWeights == {1, 2}
OneWeight == {1}
Weights == {-1, 0, 1}
\* Region names in ascending (alphabetical) order: the order of sorted() and of
\* the group keys of groupby.
RegionNames == <<"A", "B", "C">>
Regions == {RegionNames[i] : i \in DOMAIN RegionNames}

\* The year of a row whose date is NaT.
YearNaN == 0

\* ------------------------------------------------------- float arithmetic

Abs(x) == IF x < 0 THEN -x ELSE x
Sgn(x) == IF x < 0 THEN -1 ELSE IF x = 0 THEN 0 ELSE 1

RECURSIVE GCD(_, _)
GCD(a, b) == IF b = 0 THEN a ELSE GCD(b, a % b)

\* The float n / d, in lowest terms with a positive denominator; d = 0 gives
\* inf, -inf or NaN by the sign of n.
Float(n, d) ==
    IF d = 0 THEN [n |-> Sgn(n), d |-> 0]
    ELSE LET g == GCD(Abs(n), Abs(d))
         IN  [n |-> (Sgn(d) * n) \div g, d |-> Abs(d) \div g]

FInt(k) == [n |-> k, d |-> 1]
FNaN == [n |-> 0, d |-> 0]
IsNaN(x) == x.d = 0 /\ x.n = 0
IsFinite(x) == x.d # 0

\* x / y as numpy divides two float arrays: no exception, k / 0 is inf or -inf
\* by the sign of k, 0 / 0 is NaN (the sums of the script are never -0.0).
FDiv(x, y) ==
    LET s == IF y.n < 0 THEN -1 ELSE 1
    IN  Float(s * x.n * y.d, x.d * Abs(y.n))

FMul(x, y) == Float(x.n * y.n, x.d * y.d)

FAdd(x, y) ==
    IF x.d # 0 /\ y.d # 0 THEN Float(x.n * y.d + y.n * x.d, x.d * y.d)
    ELSE IF IsNaN(x) \/ IsNaN(y) THEN FNaN
    ELSE IF x.d = 0 /\ y.d = 0 THEN (IF x.n = y.n THEN x ELSE FNaN)
    ELSE IF x.d = 0 THEN x ELSE y

FSub(x, y) == FAdd(x, [n |-> -y.n, d |-> y.d])

RECURSIVE SumSeq(_)
SumSeq(s) == IF s = <<>> THEN 0 ELSE s[1] + SumSeq(Tail(s))

\* ------------------------------------------------------------- str(year)

Digit(k) ==
    CASE k = 0 -> "0" [] k = 1 -> "1" [] k = 2 -> "2" [] k = 3 -> "3" [] k = 4 -> "4"
      [] k = 5 -> "5" [] k = 6 -> "6" [] k = 7 -> "7" [] k = 8 -> "8" [] OTHER -> "9"

RECURSIVE IntStr(_)
IntStr(k) == IF k < 10 THEN Digit(k) ELSE IntStr(k \div 10) \o Digit(k % 10)

\* str() of a value of the year column: of an int when the column is int, of a
\* float ("2021.0", "nan") when a NaT has turned the column into float64.
YearStr(y, year_float) ==
    IF y = YearNaN THEN "nan"
    ELSE IF year_float THEN IntStr(y) \o ".0"
    ELSE IntStr(y)

\* ------------------------------------------------------------- sequences

SeqMap(Op(_), s) == [i \in DOMAIN s |-> Op(s[i])]

Range(s) == {s[i] : i \in DOMAIN s}

\* The elements of a set of integers in ascending order.
RECURSIVE SortedInts(_)
SortedInts(S) ==
    IF S = {} THEN <<>>
    ELSE LET m == CHOOSE x \in S : \A y \in S : x <= y
         IN  <<m>> \o SortedInts(S \ {m})

\* unique(): the distinct values of a sequence in order of first appearance.
RECURSIVE Unique(_)
Unique(s) ==
    IF s = <<>> THEN <<>>
    ELSE LET u == Unique(SubSeq(s, 1, Len(s) - 1))
         IN  IF s[Len(s)] \in Range(u) THEN u ELSE Append(u, s[Len(s)])

\* The regions of a set in ascending name order.
SortedRegions(S) == SelectSeq(RegionNames, LAMBDA r : r \in S)

\* a < b on Python floats or ints: every comparison with nan is False.
YLt(a, b) == a # YearNaN /\ b # YearNaN /\ a < b

Insert(s, k, v) == SubSeq(s, 1, k) \o <<v>> \o SubSeq(s, k + 1, Len(s))

\* a with its elements at places from..to in reverse order.
ReverseSlice(a, from, to) ==
    [i \in DOMAIN a |-> IF from <= i /\ i <= to THEN a[from + to - i] ELSE a[i]]

\* count_run of CPython up to 3.12: the end of the run at the head of the
\* list, strictly descending (desc) or non-descending.
RECURSIVE RunEnd(_, _, _)
RunEnd(a, i, desc) ==
    IF i > Len(a) THEN Len(a)
    ELSE IF YLt(a[i], a[i - 1]) = desc THEN RunEnd(a, i + 1, desc)
    ELSE i - 1

\* The list with its head run made ascending, and the length of the run.
CountRun312(a) ==
    LET desc == YLt(a[2], a[1])
        e == RunEnd(a, 3, desc)
    IN  [a |-> IF desc THEN ReverseSlice(a, 1, e) ELSE a, n |-> e]

\* count_run of CPython 3.13.  Its first loop: the end of the run of elements
\* none of which is less than the one before it, n of them being in it.
RECURSIVE AscEnd(_, _)
AscEnd(a, n) ==
    IF n >= Len(a) THEN Len(a)
    ELSE IF YLt(a[n + 1], a[n]) THEN n
    ELSE AscEnd(a, n + 1)

\* REVERSE_LAST_NEQ: the last neq + 1 of the first n elements, all equal, are
\* reversed in place.
ReverseLastNeq(a, n, neq) == IF neq = 0 THEN a ELSE ReverseSlice(a, n - neq, n)

\* Its second loop: the descending run is extended from n elements, the runs
\* of equal elements in it being reversed on the way.
RECURSIVE DescEnd(_, _, _)
DescEnd(a, n, neq) ==
    IF n >= Len(a) THEN [a |-> ReverseLastNeq(a, n, neq), n |-> n]
    ELSE IF YLt(a[n + 1], a[n]) THEN DescEnd(ReverseLastNeq(a, n, neq), n + 1, 0)
    ELSE IF YLt(a[n], a[n + 1]) THEN [a |-> ReverseLastNeq(a, n, neq), n |-> n]
    ELSE DescEnd(a, n + 1, neq + 1)

\* The whole of it: an ascending run ended by a smaller element is returned
\* when its first element is less than its last; otherwise its elements are
\* taken as equal, the run is reversed and continued as a descending run,
\* which is reversed at its end and continued as an ascending one.
CountRun313(a) ==
    LET n == AscEnd(a, 1)
    IN  IF n = Len(a) \/ (n > 1 /\ YLt(a[1], a[n])) THEN [a |-> a, n |-> n]
        ELSE LET d == DescEnd(IF n > 1 THEN ReverseSlice(a, 1, n) ELSE a, n + 1, 0)
                 up == ReverseSlice(d.a, 1, d.n)
             IN  [a |-> up, n |-> AscEnd(up, d.n)]

\* The place (0-based) binary insertion gives pivot in the sorted prefix a.
RECURSIVE BinPos(_, _, _, _)
BinPos(a, pivot, l, r) ==
    IF l >= r THEN l
    ELSE LET p == l + ((r - l) \div 2)
         IN  IF YLt(pivot, a[p + 1]) THEN BinPos(a, pivot, l, p)
             ELSE BinPos(a, pivot, p + 1, r)

RECURSIVE BinSort(_, _)
BinSort(done, rest) ==
    IF rest = <<>> THEN done
    ELSE BinSort(Insert(done, BinPos(done, rest[1], 0, Len(done)), rest[1]), Tail(rest))

\* sorted() of a short list of years (Python's list.sort below its merge
\* threshold: the head run, then binary insertion), on a CPython whose
\* count_run is that of 3.13 (py313) or the earlier one.  Ascending when no nan
\* is in the list; a nan compares False with everything, Python does not say
\* where it ends, and the two count_run leave it in different places.
PySorted(a, py313) ==
    IF Len(a) <= 1 THEN a
    ELSE LET c == IF py313 THEN CountRun313(a) ELSE CountRun312(a)
         IN  BinSort(SubSeq(c.a, 1, c.n), SubSeq(c.a, c.n + 1, Len(a)))

\* ------------------------------------------------------------------ state

VARIABLES
    file,              \* the CSV at FILE_PATH: exists, columns, rows
    strict_slider,     \* the installed Streamlit rejects a slider whose minimum
                       \* is not below its maximum (others widen the bounds)
    cpython313,        \* the installed CPython sorts with the count_run of 3.13
    stable_sort,       \* the installed pandas and numpy leave rows of equal
                       \* weight in the order sort_values received them
                       \* (others leave them in the reverse of that order)
    cache,             \* st.cache_data of load_data: filled, df
    widgets,           \* the multiselects have been built (session state exists)
    selected_years,    \* value of the "Select Years" multiselect
    selected_regions,  \* value of the "Select Regions" multiselect
    run                \* what the last execution of the script bound and displayed

vars == <<file, strict_slider, cpython313, stable_sort, cache, widgets, selected_years,
          selected_regions, run>>

\* --------------------------------------------------------------- load_data

NoDF == [columns |-> {}, rows |-> <<>>, year_float |-> FALSE]

IsDate(c) == c # EmptyCell /\ c # BadCell

\* pd.to_datetime raises on a cell it cannot parse (errors='raise' is the default).
Unparseable(f) == \E i \in DOMAIN f.rows : f.rows[i].data_cattura = BadCell

\* dt.year and dt.month of a parsed cell; an empty cell is NaT and both are NaN.
DtYear(c) == IF c = EmptyCell THEN YearNaN ELSE c \div 100
DtMonth(c) == IF c = EmptyCell THEN YearNaN ELSE c % 100

\* The frame load_data returns when it returns one.
LoadedDF(f) ==
    [columns |-> f.columns \cup {"year", "month", "month_name", "year_month"},
     rows |-> SeqMap(LAMBDA r : [data_cattura |-> r.data_cattura,
                                 peso_kg |-> r.peso_kg,
                                 regione |-> r.regione,
                                 year |-> DtYear(r.data_cattura),
                                 month |-> DtMonth(r.data_cattura)], f.rows),
     year_float |-> \E i \in DOMAIN f.rows : f.rows[i].data_cattura = EmptyCell]

\* How load_data ends: "stop" (file not found: st.error, st.stop), "raise"
\* (KeyError on data_cattura, or to_datetime's ValueError) or "return".
load_data(f) ==
    IF ~f.exists THEN [how |-> "stop", what |-> "Data file not found", df |-> NoDF]
    ELSE IF "data_cattura" \notin f.columns
         THEN [how |-> "raise", what |-> "KeyError: data_cattura", df |-> NoDF]
    ELSE IF Unparseable(f)
         THEN [how |-> "raise", what |-> "ValueError: data_cattura", df |-> NoDF]
    ELSE [how |-> "return", what |-> "", df |-> LoadedDF(f)]

\* ------------------------------------------------- filters (lines 64-90)

\* Line 64: sorted(df['year'].unique().tolist()); a NaT row brings a nan.
years_available(df, py313) == PySorted(Unique(SeqMap(LAMBDA r : r.year, df.rows)), py313)

\* Line 65: sorted(df['regione'].unique().tolist()).
regions_available(df) == SortedRegions({df.rows[i].regione : i \in DOMAIN df.rows})

\* Line 82: the script stops when either multiselect is empty.
NothingSelected(sy, sr) == sy = {} \/ sr = {}

\* A script without the check of line 88.
NoDataUnchecked(dff) == FALSE

\* Line 88: the script stops when no row passes the filters.
NoData(dff) == Len(dff) = 0

\* Line 86: the rows whose year and region are both selected (isin matches a
\* selected nan with the nan of a NaT row).
Filtered(df, sy, sr) == SelectSeq(df.rows, LAMBDA r : r.year \in sy /\ r.regione \in sr)

\* ---------------------------------------------- statistics (lines 92-117)

RECURSIVE Flatten(_)
Flatten(ss) == IF ss = <<>> THEN <<>> ELSE ss[1] \o Flatten(Tail(ss))

Perms(n) == {p \in [1..n -> 1..n] : \A i, j \in 1..n : i # j => p[i] # p[j]}

Weight(rows) == SumSeq(SeqMap(LAMBDA r : r.peso_kg, rows))

\* groupby drops the rows whose key is NaN and orders the groups by key.
YearKeys(rows) == SortedInts({rows[i].year : i \in DOMAIN rows} \ {YearNaN})
RegionKeys(rows) == SortedRegions({rows[i].regione : i \in DOMAIN rows})

\* Lines 94-96: the summed weight of each region, in group-key order, with its
\* share of the sum of the sums.
RegOverall(dff) ==
    LET sums == SeqMap(LAMBDA k : [regione |-> k,
                                   peso_kg |-> Weight(SelectSeq(dff, LAMBDA r : r.regione = k))],
                       RegionKeys(dff))
        total_all_time == SumSeq(SeqMap(LAMBDA g : g.peso_kg, sums))
    IN  SeqMap(LAMBDA g : [regione |-> g.regione,
                           peso_kg |-> g.peso_kg,
                           share_pct |-> FMul(FDiv(FInt(g.peso_kg), FInt(total_all_time)),
                                              FInt(100))], sums)

\* Line 97: sort_values('peso_kg', ascending=False).  The default kind,
\* quicksort, is not stable: the rows come out in descending weight, and
\* nothing in the call says in which order rows of equal weight do.
SortValuesDesc(t) ==
    {[i \in DOMAIN t |-> t[p[i]]] : p \in
        {q \in Perms(Len(t)) : \A i, j \in DOMAIN t :
            i < j => t[q[i]].peso_kg >= t[q[j]].peso_kg}}

\* The place at which the sort received the row g of the table t.
Received(t, g) == CHOOSE k \in DOMAIN t : t[k].regione = g.regione

\* Line 97 on one installation.  The sort is a function of its input: of the
\* descending arrangements it returns, whenever it is called, the one its
\* pandas and numpy compute.  A short array is sorted by insertion, which moves
\* no equal elements: a pandas that reverses the array, sorts it ascending and
\* reverses the result leaves tied rows as it received them (stable); one that
\* sorts ascending and reverses the result leaves them reversed.
SortValues(t, stable) ==
    {s \in SortValuesDesc(t) : \A i, j \in DOMAIN s :
        (i < j /\ s[i].peso_kg = s[j].peso_kg) =>
            IF stable THEN Received(t, s[i]) < Received(t, s[j])
            ELSE Received(t, s[i]) > Received(t, s[j])}

\* Line 101: the total weight of each year.
AnnualTotals(dff) ==
    SeqMap(LAMBDA y : [year |-> y,
                       total_kg |-> Weight(SelectSeq(dff, LAMBDA r : r.year = y))],
           YearKeys(dff))

\* A grouping that keeps every combination of a year and a region of the
\* filtered rows (as groupby does on categorical keys), empty groups included.
RegAnnualAllCombinations(dff) ==
    Flatten(SeqMap(LAMBDA y :
        SeqMap(LAMBDA k :
            LET grp == SelectSeq(dff, LAMBDA r : r.year = y /\ r.regione = k)
            IN  [year |-> y, regione |-> k,
                 weight |-> Weight(grp),
                 count |-> Len(grp),
                 avg_weight |-> Float(Weight(grp), Len(grp))],
            RegionKeys(dff)),
        YearKeys(dff)))

\* Lines 102-106: one row per (year, region) group that holds a record, ordered
\* by year and then region, with the sum, the count and the mean of its weights.
RegAnnual(dff) ==
    Flatten(SeqMap(LAMBDA y :
        LET of_year == SelectSeq(dff, LAMBDA r : r.year = y)
        IN  SeqMap(LAMBDA k :
                LET grp == SelectSeq(of_year, LAMBDA r : r.regione = k)
                IN  [year |-> y, regione |-> k,
                     weight |-> Weight(grp),
                     count |-> Len(grp),
                     avg_weight |-> Float(Weight(grp), Len(grp))],
                RegionKeys(of_year)),
        YearKeys(dff)))

\* Line 109: reg_annual.merge(annual_totals, on='year'), an inner join that
\* keeps the order of the left rows.
Merge(reg_annual, annual_totals) ==
    Flatten(SeqMap(LAMBDA l :
        SeqMap(LAMBDA r : [year |-> l.year, regione |-> l.regione, weight |-> l.weight,
                           count |-> l.count, avg_weight |-> l.avg_weight,
                           total_kg |-> r.total_kg],
               SelectSeq(annual_totals, LAMBDA r : r.year = l.year)),
        reg_annual))

\* Lines 110-111: the share of the year's total and the year as text.
Stats(merged, year_float) ==
    SeqMap(LAMBDA m : [year |-> m.year, regione |-> m.regione, weight |-> m.weight,
                       count |-> m.count, avg_weight |-> m.avg_weight,
                       total_kg |-> m.total_kg,
                       share_pct |-> FMul(FDiv(FInt(m.weight), FInt(m.total_kg)), FInt(100)),
                       year_str |-> YearStr(m.year, year_float)], merged)

\* Lines 112-113: the years of the filtered rows, sorted, as text.
YearsSortedStr(dff, year_float, py313) ==
    SeqMap(LAMBDA y : YearStr(y, year_float),
           PySorted(Unique(SeqMap(LAMBDA r : r.year, dff)), py313))

\* Line 116: sort_values('year'); the years of annual_totals are distinct.
SortByYear(t) ==
    SeqMap(LAMBDA y : t[CHOOSE i \in DOMAIN t : t[i].year = y],
           SortedInts({t[i].year : i \in DOMAIN t}))

\* A growth taken against the year itself instead of the year before.
PctChangeOfCurrent(t, i) ==
    IF i = 1 THEN FNaN
    ELSE FMul(FDiv(FInt(t[i].total_kg - t[i - 1].total_kg), FInt(t[i].total_kg)), FInt(100))

\* Line 117: pct_change() * 100.  pct_change is value / previous value - 1,
\* NaN on the first row.
PctChange(t, i) ==
    IF i = 1 THEN FNaN
    ELSE FMul(FSub(FDiv(FInt(t[i].total_kg), FInt(t[i - 1].total_kg)), FInt(1)), FInt(100))

AnnualTotalsSorted(annual_totals) ==
    LET t == SortByYear(annual_totals)
    IN  [i \in DOMAIN t |-> [year |-> t[i].year, total_kg |-> t[i].total_kg,
                             yoy_growth |-> PctChange(t, i)]]

\* Lines 136-140: the "Latest YoY Growth" metric: the last growth, or "N/A".
LatestGrowth(ats) ==
    IF Len(ats) > 1 /\ ~IsNaN(ats[Len(ats)].yoy_growth)
    THEN [available |-> TRUE, value |-> ats[Len(ats)].yoy_growth]
    ELSE [available |-> FALSE, value |-> FNaN]

\* ------------------------------------------------ one run of the script

\* The frame objects of a run, each with the columns it holds: the value kept
\* by st.cache_data, the frame line 58 binds to df and the frame line 86 binds
\* to df_filtered.
Objects == {"cached", "df", "df_filtered"}

NoFrames == [o \in Objects |-> {}]

\* Lines 40 and 58: st.cache_data returns a copy of the value it keeps, so df
\* names an object of its own.
DfObject == "df"

\* Line 86: indexing with a boolean mask builds a new frame and .copy() copies
\* it, so df_filtered names an object of its own.
DfFilteredObject == "df_filtered"

\* Line 58: the frames once df is bound to the frame with columns cols.
Line58(cols) == [[NoFrames EXCEPT !["cached"] = cols] EXCEPT ![DfObject] = cols]

\* Line 86: df_filtered starts with the columns of df.
Line86(frames) == [frames EXCEPT ![DfFilteredObject] = frames[DfObject]]

\* Line 463: df_filtered['month_num'] = ... writes a column into the object
\* df_filtered names.
Line463(frames) == [frames EXCEPT ![DfFilteredObject] = @ \cup {"month_num"}]

\* A script that filters the rows the run before kept (as one that stores
\* df_filtered in st.session_state and narrows it would).
FilterSourceKept(df, prev) ==
    IF "df_filtered" \in prev.bound THEN [df EXCEPT !.rows = prev.df_filtered] ELSE df

\* Line 86: the filter reads df, the frame line 58 bound in this run; nothing
\* that prev, the run before, bound is read (the script uses no session state
\* of its own and every name is bound again from the top).
FilterSource(df, prev) == df

\* Nothing bound, nothing displayed: the page before the script has run.
EmptyRun ==
    [outcome |-> "none", message |-> "", bound |-> {}, shown |-> {},
     df_filtered |-> <<>>, reg_overall |-> <<>>, region_rank |-> <<>>,
     annual_totals |-> <<>>, stats |-> <<>>, years_sorted_str |-> <<>>,
     annual_totals_sorted |-> <<>>,
     latest_growth |-> [available |-> FALSE, value |-> FNaN],
     frames |-> NoFrames]

\* The names lines 94-117 bind.
StatNames == {"reg_overall", "total_all_time", "region_rank", "annual_totals",
              "reg_annual", "stats", "years_sorted", "years_sorted_str",
              "annual_totals_sorted"}

\* st.warning or st.error followed by st.stop(): StopException is not an
\* Exception, so the handler at line 568 does not see it.
Stopped(r, how, what) ==
    [r EXCEPT !.outcome = "stopped", !.message = what, !.shown = @ \cup {how}]

\* An exception inside the try block: line 568 catches it and lines 569-570
\* display it under whatever the script displayed before.
Raised(r, what) ==
    [r EXCEPT !.outcome = "error", !.message = what, !.shown = @ \cup {"st.error"}]

\* Lines 94-117 on a non-empty df_filtered, with ro the outcome of the sort at
\* line 97.
Statistics(df, dff, ro, py313) ==
    LET annual_totals == AnnualTotals(dff)
        ats == AnnualTotalsSorted(annual_totals)
    IN  [EmptyRun EXCEPT
            !.bound = {"df", "df_filtered"} \cup StatNames,
            !.frames = Line86(Line58(df.columns)),
            !.df_filtered = dff,
            !.reg_overall = ro,
            !.region_rank = SeqMap(LAMBDA g : g.regione, ro),
            !.annual_totals = annual_totals,
            !.stats = Stats(Merge(RegAnnual(dff), annual_totals), df.year_float),
            !.years_sorted_str = YearsSortedStr(dff, df.year_float, py313),
            !.annual_totals_sorted = ats,
            !.latest_growth = LatestGrowth(ats)]

\* Line 288: st.slider(label, 3, len(region_rank), min(5, len(region_rank))):
\* the minimum, the maximum and the default of the slider for n ranked regions.
SliderMin == 3
SliderMax(n) == n
SliderDefault(n) == IF 5 < n THEN 5 ELSE n

\* With four regions or more the bounds are in order and the slider is built;
\* with fewer the minimum is not below the maximum, and the widget is built
\* only by a Streamlit that widens the bounds instead of raising.
SliderBuilt(n, strict) == SliderMin < SliderMax(n) \/ ~strict

\* Line 474: heatmap_data.loc[region_rank] raises KeyError when a ranked region
\* has no row in the pivot, that is no row with a month name (only NaT rows).
HeatmapMissesRegion(r) ==
    \E k \in Range(r.region_rank) :
        \A i \in DOMAIN r.df_filtered :
            r.df_filtered[i].regione = k => r.df_filtered[i].year = YearNaN

Show(r, what) == [r EXCEPT !.shown = @ \cup what]

\* Lines 119-566: the KPIs and the five tabs, in script order, up to the first
\* exception.
Render(df, r, slider_built) ==
    LET t1 == Show(r, {"kpis", "fig_perf", "fig_avg", "fig_box", "fig_pie", "fig_pie_count"})
        t2 == Show(t1, {"fig_ts"})
        t2b == Show(t2, {"top_n", "fig_ts_reg", "fig_yoy"})
        t3 == Show(t2b, {"fig_fao", "fig_fao_count", "fig_heatmap", "fig_share"})
        t4 == Show(t3, {"fig_month", "fig_month_count"})
        t4a == [t4 EXCEPT !.frames = Line463(@)]
        t4b == Show(t4a, {"fig_season_heatmap", "peak_month"})
        t5 == Show(t4b, {"describe", "regional_counts", "yearly_counts"})
        t5b == Show(t5, {"top_catches", "raw_data", "download", "footer"})
    IN  IF ~slider_built THEN Raised(t2, "StreamlitAPIException: slider")
        ELSE IF "zona_FAO" \notin df.columns THEN Raised(t2b, "KeyError: zona_FAO")
        ELSE IF HeatmapMissesRegion(r) THEN Raised(t4a, "KeyError: region_rank")
        ELSE IF "identificativo_natante" \notin df.columns
             THEN Raised(t5, "KeyError: identificativo_natante")
        ELSE [t5b EXCEPT !.outcome = "done"]

\* Lines 64-566 with the frame loaded, the run before being prev and the
\* multiselects at sy and sr: the ways the run can end.
Body(df, prev, sy, sr, strict, py313, stable) ==
    LET dff == Filtered(FilterSource(df, prev), sy, sr)
        bound == [EmptyRun EXCEPT !.bound = {"df"}, !.frames = Line58(df.columns)]
        got == [bound EXCEPT !.bound = {"df", "df_filtered"}, !.df_filtered = dff,
                             !.frames = Line86(@)]
    IN  IF NothingSelected(sy, sr)
        THEN {Stopped(bound, "st.warning", "select filters")}
        ELSE IF NoData(dff)
        THEN {Stopped(got, "st.warning", "no data")}
        ELSE IF "peso_kg" \notin df.columns
        THEN {Raised(got, "KeyError: peso_kg")}
        ELSE {Render(df, Statistics(df, dff, ro, py313),
                     SliderBuilt(Cardinality({dff[i].regione : i \in DOMAIN dff}), strict)) :
                ro \in SortValues(RegOverall(dff), stable)}

\* One execution of the whole script from the session state (c, w, sy, sr)
\* after the run prev: the session state it leaves and the run.  load_data
\* runs only on a cache miss; the multiselects take their defaults, every
\* option, when first built.  The value st.cache_data keeps after the run has
\* the columns the run left in the object "cached".
Script(f, strict, py313, stable, c, w, sy, sr, prev) ==
    LET l == IF c.filled THEN [how |-> "return", what |-> "", df |-> c.df]
             ELSE load_data(f)
        c2 == IF l.how = "return" THEN [filled |-> TRUE, df |-> l.df] ELSE c
        sy2 == IF w THEN sy ELSE Range(years_available(l.df, py313))
        sr2 == IF w THEN sr ELSE Range(regions_available(l.df))
        keep == [cache |-> c2, widgets |-> w, selected_years |-> sy,
                 selected_regions |-> sr, run |-> EmptyRun]
    IN  IF l.how = "stop"
        THEN {[keep EXCEPT !.run = Stopped(EmptyRun, "st.error", l.what)]}
        ELSE IF l.how = "raise"
        THEN {[keep EXCEPT !.run = Raised(EmptyRun, l.what)]}
        ELSE IF "regione" \notin l.df.columns
        THEN {[keep EXCEPT !.run = Raised([EmptyRun EXCEPT !.bound = {"df"},
                                                          !.frames = Line58(l.df.columns)],
                                          "KeyError: regione")]}
        ELSE {[cache |-> [filled |-> TRUE, df |-> [l.df EXCEPT !.columns = r.frames["cached"]]],
               widgets |-> TRUE, selected_years |-> sy2, selected_regions |-> sr2,
               run |-> r] :
                r \in Body(l.df, prev, sy2, sr2, strict, py313, stable)}

Becomes(x) ==
    /\ cache' = x.cache
    /\ widgets' = x.widgets
    /\ selected_years' = x.selected_years
    /\ selected_regions' = x.selected_regions
    /\ run' = x.run
    /\ UNCHANGED <<file, strict_slider, cpython313, stable_sort>>

\* ------------------------------------------------------------------ files

\* The cells a column can hold; a column the file lacks has no cells, and its
\* field is a fixed filler that no run reads.
RowsOf(cols, dates, weights) ==
    [data_cattura : IF "data_cattura" \in cols THEN dates ELSE {EmptyCell},
     peso_kg : IF "peso_kg" \in cols THEN weights ELSE {0},
     regione : IF "regione" \in cols THEN Regions ELSE {RegionNames[1]}]

NotDates(rs) == Cardinality({i \in DOMAIN rs : ~IsDate(rs[i].data_cattura)})

\* Files of at most rows rows with the columns cols, data_cattura cells drawn
\* from dates and peso_kg cells drawn from weights.
FilesWith(cols, dates, weights, rows) ==
    {[exists |-> TRUE, columns |-> cols, rows |-> rs] :
        rs \in UNION {[1..n -> RowsOf(cols, dates, weights)] : n \in 0..rows}}

\* The files the runs start from: no file; a file with every column, every
\* date valid and every weight positive; a file with every column and every
\* date valid whose weights need not be positive; a file with every column and
\* at most MaxNotDates cells that are not dates; a file with every column,
\* rows of one weight and at most MaxNotDates empty dates; a file that lacks
\* one column and whose dates are all valid.
Files ==
    {[exists |-> FALSE, columns |-> {}, rows |-> <<>>]}
    \cup FilesWith(Columns, DateCells, ValidWeights, MaxRows)
    \cup FilesWith(Columns, DateCells, Weights, MaxRowsDefect)
    \cup {f \in FilesWith(Columns, DateCells \cup {EmptyCell, BadCell}, Weights, MaxRowsDefect) :
            NotDates(f.rows) <= MaxNotDates}
    \cup {f \in FilesWith(Columns, DateCells \cup {EmptyCell}, OneWeight, MaxRows) :
            NotDates(f.rows) <= MaxNotDates}
    \cup UNION {FilesWith(Columns \ {c}, DateCells, Weights, MaxRowsDefect) : c \in Columns}

\* ---------------------------------------------------------- specification

\* Lines 64 and 112: the lists of years a run on file f can hand to sorted(),
\* those of the loaded frame and of the rows any selection keeps.
SortedLists(f) ==
    LET df == load_data(f).df
        ys == {df.rows[i].year : i \in DOMAIN df.rows}
        ks == {df.rows[i].regione : i \in DOMAIN df.rows}
    IN  {Unique(SeqMap(LAMBDA r : r.year, Filtered(df, sy, sr))) :
            sy \in SUBSET ys, sr \in SUBSET ks}

\* The two count_run sort some list of the file differently.
BuildsDiffer(f) ==
    /\ load_data(f).how = "return"
    /\ \E a \in SortedLists(f) : PySorted(a, TRUE) # PySorted(a, FALSE)

\* Line 97: the two sorts order the table of some selection differently.
SortsDiffer(f) ==
    /\ load_data(f).how = "return"
    /\ {"peso_kg", "regione"} \subseteq f.columns
    /\ LET df == load_data(f).df
           ys == {df.rows[i].year : i \in DOMAIN df.rows}
           ks == {df.rows[i].regione : i \in DOMAIN df.rows}
       IN  \E sy \in SUBSET ys, sr \in SUBSET ks :
              SortValues(RegOverall(Filtered(df, sy, sr)), TRUE)
                # SortValues(RegOverall(Filtered(df, sy, sr)), FALSE)

\* The session starts on any file and any installation; on a file whose lists
\* the two count_run sort alike the earlier CPython stands for both, and on a
\* file whose tables the two sorts order alike the stable one stands for both.
Init ==
    /\ file \in Files
    /\ strict_slider \in BOOLEAN
    /\ cpython313 \in IF BuildsDiffer(file) THEN BOOLEAN ELSE {FALSE}
    /\ stable_sort \in IF SortsDiffer(file) THEN BOOLEAN ELSE {TRUE}
    /\ cache = [filled |-> FALSE, df |-> NoDF]
    /\ widgets = FALSE
    /\ selected_years = {}
    /\ selected_regions = {}
    /\ run = EmptyRun

\* The first execution of the script in a session.
Start ==
    /\ run.outcome = "none"
    /\ \E x \in Script(file, strict_slider, cpython313, stable_sort, cache, widgets,
                       selected_years, selected_regions, run) : Becomes(x)

\* The user adds a year to or removes it from "Select Years"; the script reruns.
ToggleYear ==
    /\ widgets
    /\ \E y \in Range(years_available(cache.df, cpython313)) :
        LET sy == IF y \in selected_years THEN selected_years \ {y}
                  ELSE selected_years \cup {y}
        IN  \E x \in Script(file, strict_slider, cpython313, stable_sort, cache, widgets,
                           sy, selected_regions, run) : Becomes(x)

\* The user adds a region to or removes it from "Select Regions"; the script reruns.
ToggleRegion ==
    /\ widgets
    /\ \E k \in Range(regions_available(cache.df)) :
        LET sr == IF k \in selected_regions THEN selected_regions \ {k}
                  ELSE selected_regions \cup {k}
        IN  \E x \in Script(file, strict_slider, cpython313, stable_sort, cache, widgets,
                           selected_years, sr, run) : Becomes(x)

\* The script reruns with the widgets untouched (any other interaction).
Rerun ==
    /\ run.outcome # "none"
    /\ \E x \in Script(file, strict_slider, cpython313, stable_sort, cache, widgets,
                       selected_years, selected_regions, run) : Becomes(x)

Next == Start \/ ToggleYear \/ ToggleRegion \/ Rerun

Spec == Init /\ [][Next]_vars

\* ----------------------------------------------------------------- claims

\* The statistics of lines 94-117 were computed by the last run.
HasStatistics == "stats" \in run.bound

\* The sum of a sequence of floats.
RECURSIVE FSum(_)
FSum(s) == IF s = <<>> THEN FInt(0) ELSE FAdd(s[1], FSum(Tail(s)))

SharePcts(t) == SeqMap(LAMBDA g : g.share_pct, t)

\* Every filtered row has a positive weight.
PositiveWeights == \A i \in DOMAIN run.df_filtered : run.df_filtered[i].peso_kg > 0

\* C1: whenever the per-region table is computed, its share_pct values sum to
\* 100.
C1_RegionSharesSumTo100 ==
    HasStatistics => FSum(SharePcts(run.reg_overall)) = FInt(100)

\* C2: whenever the year/region table is computed, the share_pct values of
\* the rows of each of its years sum to 100.
C2_YearSharesSumTo100 ==
    HasStatistics =>
        \A i \in DOMAIN run.stats :
            FSum(SharePcts(SelectSeq(run.stats,
                                     LAMBDA g : g.year = run.stats[i].year))) = FInt(100)

\* The place in the filtered rows where region k is first seen.
FirstSeen(k) ==
    CHOOSE i \in DOMAIN run.df_filtered :
        /\ run.df_filtered[i].regione = k
        /\ \A j \in 1..(i - 1) : run.df_filtered[j].regione # k

\* The per-region table holds every region of the filtered rows once, region_rank
\* is its region column, and its weights never increase down the table.
RankedByWeight ==
    /\ run.region_rank = SeqMap(LAMBDA g : g.regione, run.reg_overall)
    /\ Range(run.region_rank) = {run.df_filtered[i].regione : i \in DOMAIN run.df_filtered}
    /\ Len(run.region_rank) = Cardinality(Range(run.region_rank))
    /\ \A i, j \in DOMAIN run.reg_overall :
        i < j => run.reg_overall[i].peso_kg >= run.reg_overall[j].peso_kg

\* The place of region k in ascending name order.
NameOrder(k) == CHOOSE i \in DOMAIN RegionNames : RegionNames[i] = k

\* The sort of line 97 left the regions of equal weight as it received them
\* from groupby, in ascending name order (what a stable sort does).
TiesInNameOrder ==
    \A i, j \in DOMAIN run.reg_overall :
        (i < j /\ run.reg_overall[i].peso_kg = run.reg_overall[j].peso_kg)
            => NameOrder(run.reg_overall[i].regione) < NameOrder(run.reg_overall[j].regione)

\* C3 as stated, on records of positive weight and for a sort that moves no
\* tied rows: the table and the ranking are in descending order of total
\* weight, and regions of equal total weight are in first-seen order.
C3_TiesInFirstSeenOrder ==
    (HasStatistics /\ PositiveWeights /\ TiesInNameOrder) =>
        /\ RankedByWeight
        /\ \A i, j \in DOMAIN run.reg_overall :
            (i < j /\ run.reg_overall[i].peso_kg = run.reg_overall[j].peso_kg)
                => FirstSeen(run.reg_overall[i].regione) < FirstSeen(run.reg_overall[j].regione)

\* The filtered rows of positive weight that satisfy Test.
PositiveRows(Test(_)) ==
    SelectSeq(run.df_filtered, LAMBDA r : r.peso_kg > 0 /\ Test(r))

\* C4: the sums, counts and means of the tables are those of the filtered rows
\* of positive weight alone.
C4_NonPositiveWeightExcluded ==
    HasStatistics =>
        /\ \A i \in DOMAIN run.reg_overall :
            LET g == run.reg_overall[i]
            IN  g.peso_kg = Weight(PositiveRows(LAMBDA r : r.regione = g.regione))
        /\ \A i \in DOMAIN run.annual_totals :
            LET g == run.annual_totals[i]
            IN  g.total_kg = Weight(PositiveRows(LAMBDA r : r.year = g.year))
        /\ \A i \in DOMAIN run.stats :
            LET g == run.stats[i]
                rows == PositiveRows(LAMBDA r : r.year = g.year /\ r.regione = g.regione)
            IN  /\ g.weight = Weight(rows)
                /\ g.count = Len(rows)
                /\ g.avg_weight = Float(Weight(rows), Len(rows))

\* No row of the loaded frame has its year and its region selected.
NothingMatches ==
    \A i \in DOMAIN cache.df.rows :
        ~(cache.df.rows[i].year \in selected_years
            /\ cache.df.rows[i].regione \in selected_regions)

\* C5: a run whose filters leave no row (no year selected, no region selected,
\* or no row matching) ends stopped on a warning, with none of the names of
\* lines 94-117 bound, no table and so no share computed, and nothing else
\* displayed.
C5_EmptySelectionStops ==
    (widgets /\ (selected_years = {} \/ selected_regions = {} \/ NothingMatches)) =>
        /\ run.outcome = "stopped"
        /\ run.shown = {"st.warning"}
        /\ run.bound \cap StatNames = {}
        /\ run.reg_overall = <<>> /\ run.stats = <<>> /\ run.annual_totals_sorted = <<>>

\* A year and a region are selected, the frame has rows, and none matches.
C5_Witness ==
    /\ widgets
    /\ selected_years # {} /\ selected_regions # {}
    /\ cache.df.rows # <<>>
    /\ NothingMatches
    /\ run.outcome = "stopped"

\* The calendar years of the dates a file can hold.
Years == {c \div 100 : c \in DateCells}

\* C6: the year/region table has exactly one row for a (year, region) pair
\* that a filtered row has, and none for a pair that no filtered row has.
C6_OneRowPerPresentPair ==
    HasStatistics =>
        /\ \A y \in Years, k \in Regions :
            Cardinality({i \in DOMAIN run.stats :
                            run.stats[i].year = y /\ run.stats[i].regione = k})
              = IF \E j \in DOMAIN run.df_filtered :
                      run.df_filtered[j].year = y /\ run.df_filtered[j].regione = k
                THEN 1 ELSE 0
        /\ \A i \in DOMAIN run.stats : run.stats[i].year \in Years

\* Two years and two regions are in the filtered rows, and one of the four
\* pairs has no row.
C6_Witness ==
    /\ HasStatistics
    /\ Len(run.annual_totals) >= 2
    /\ Len(run.reg_overall) >= 2
    /\ Len(run.stats) < Len(run.annual_totals) * Len(run.reg_overall)

\* C7, on records of positive weight: the year label of every row of the
\* year/region table is the text of the integer calendar year, and these labels
\* are the ones listed as the categories of the year.
C7_YearLabelIsIntegerText ==
    (HasStatistics /\ PositiveWeights) =>
        /\ \A i \in DOMAIN run.stats : run.stats[i].year_str = IntStr(run.stats[i].year)
        /\ {run.stats[i].year_str : i \in DOMAIN run.stats} \subseteq Range(run.years_sorted_str)

\* The total weight of the filtered rows of year y.
TotalOfYear(y) == Weight(SelectSeq(run.df_filtered, LAMBDA r : r.year = y))

\* C8: the yearly totals are in ascending year order; the growth of the first
\* year is missing, the growth of every later year is
\* (total - previous total) / previous total * 100 against the row before it;
\* with a single year the latest growth is reported as not available.
C8_GrowthAgainstPrecedingYear ==
    HasStatistics =>
        LET t == run.annual_totals_sorted
        IN  /\ \A i \in DOMAIN t :
                /\ t[i].total_kg = TotalOfYear(t[i].year)
                /\ i = 1 => IsNaN(t[i].yoy_growth)
                /\ i > 1 =>
                    /\ t[i - 1].year < t[i].year
                    /\ t[i].yoy_growth =
                        FMul(FDiv(FInt(t[i].total_kg - t[i - 1].total_kg),
                                  FInt(t[i - 1].total_kg)), FInt(100))
            /\ {t[i].year : i \in DOMAIN t}
                 = {run.df_filtered[j].year : j \in DOMAIN run.df_filtered} \cap Years
            /\ Len(t) = 1 => ~run.latest_growth.available

\* Three years with totals, the second and third with a growth that is a
\* number, the last one not zero.
C8_Witness ==
    /\ HasStatistics
    /\ Len(run.annual_totals_sorted) = 3
    /\ IsFinite(run.annual_totals_sorted[2].yoy_growth)
    /\ IsFinite(run.annual_totals_sorted[3].yoy_growth)
    /\ run.annual_totals_sorted[3].yoy_growth # FInt(0)
    /\ run.latest_growth.available

\* C9: a run on a file with data rows that lacks a required column ends in the
\* error handler with none of the names of lines 94-117 bound and nothing but
\* the error displayed.
C9_MissingColumnFailsFirst ==
    (file.exists /\ file.rows # <<>> /\ ~(Columns \subseteq file.columns)
        /\ run.outcome # "none") =>
        /\ run.outcome = "error"
        /\ run.bound \cap StatNames = {}
        /\ run.shown = {"st.error"}

\* The rows of the file whose capture date is empty or unparseable.
InvalidDateRows == {i \in DOMAIN file.rows : ~IsDate(file.rows[i].data_cattura)}

\* C10: a run on a file with one row whose date is null or unparseable is not
\* aborted by that row, and the row is in none of the tables: the per-region
\* totals are those of the filtered rows that have a date.
C10_InvalidDateRowSkipped ==
    (Columns \subseteq file.columns /\ Cardinality(InvalidDateRows) = 1
        /\ run.outcome # "none") =>
        /\ run.message # "ValueError: data_cattura"
        /\ HasStatistics =>
            \A i \in DOMAIN run.reg_overall :
                LET g == run.reg_overall[i]
                IN  g.peso_kg = Weight(SelectSeq(run.df_filtered, LAMBDA r :
                                    r.regione = g.regione /\ IsDate(r.data_cattura)))

\* The rows of the loaded frame whose year and region are selected.
Selected ==
    SelectSeq(cache.df.rows,
              LAMBDA r : r.year \in selected_years /\ r.regione \in selected_regions)

\* The per-region table is that of the selected rows of the loaded frame: one
\* row for each of their regions with the sum of its weights, in descending
\* weight, regions of equal weight in the order of the installed sort.
RegOverallOfSelected ==
    /\ {run.reg_overall[i].regione : i \in DOMAIN run.reg_overall}
            = {Selected[i].regione : i \in DOMAIN Selected}
    /\ \A i \in DOMAIN run.reg_overall :
            run.reg_overall[i].peso_kg
                = Weight(SelectSeq(Selected, LAMBDA r : r.regione = run.reg_overall[i].regione))
    /\ \A i, j \in DOMAIN run.reg_overall :
            i < j => \/ run.reg_overall[i].peso_kg > run.reg_overall[j].peso_kg
                     \/ /\ run.reg_overall[i].peso_kg = run.reg_overall[j].peso_kg
                        /\ (NameOrder(run.reg_overall[i].regione)
                                < NameOrder(run.reg_overall[j].regione)) = stable_sort

\* The year/region table is that of the selected rows of the loaded frame: one
\* row for each (year, region) pair they have, by year and then region, with
\* the sum and the number of the weights of the pair.
StatsOfSelected ==
    /\ {<<run.stats[i].year, run.stats[i].regione>> : i \in DOMAIN run.stats}
            = {<<Selected[i].year, Selected[i].regione>> : i \in DOMAIN Selected}
                \ {<<YearNaN, k>> : k \in Regions}
    /\ \A i \in DOMAIN run.stats :
            LET rows == SelectSeq(Selected, LAMBDA r : r.year = run.stats[i].year
                                                      /\ r.regione = run.stats[i].regione)
            IN  run.stats[i].weight = Weight(rows) /\ run.stats[i].count = Len(rows)
    /\ \A i, j \in DOMAIN run.stats :
            i < j => \/ run.stats[i].year < run.stats[j].year
                     \/ /\ run.stats[i].year = run.stats[j].year
                        /\ NameOrder(run.stats[i].regione) < NameOrder(run.stats[j].regione)

\* The yearly totals are those of the selected rows of the loaded frame: one
\* row for each of their years, in ascending order, with the sum of its weights.
AnnualTotalsOfSelected ==
    /\ {run.annual_totals_sorted[i].year : i \in DOMAIN run.annual_totals_sorted}
            = {Selected[i].year : i \in DOMAIN Selected} \ {YearNaN}
    /\ \A i \in DOMAIN run.annual_totals_sorted :
            run.annual_totals_sorted[i].total_kg
                = Weight(SelectSeq(Selected,
                                   LAMBDA r : r.year = run.annual_totals_sorted[i].year))
    /\ \A i, j \in DOMAIN run.annual_totals_sorted :
            i < j => run.annual_totals_sorted[i].year < run.annual_totals_sorted[j].year

\* Whatever runs came before, the frame st.cache_data keeps is the frame
\* load_data built from the file, and the tables of the last run are those of
\* its rows that are selected now.
TablesOfLoadedAndSelected ==
    /\ cache.filled => cache.df = LoadedDF(file)
    /\ HasStatistics =>
            /\ run.df_filtered = Selected
            /\ RegOverallOfSelected
            /\ StatsOfSelected
            /\ AnnualTotalsOfSelected

\* A step that runs the script on the frame already loaded, with the years and
\* the regions selected as they were for the run before it, binds the same
\* filtered rows and the same tables and ends the same way; no step changes
\* the loaded frame.
RerunIsTheSame ==
    /\ cache.filled => cache' = cache
    /\ (cache.filled /\ run.outcome # "none"
            /\ selected_years' = selected_years
            /\ selected_regions' = selected_regions) => run' = run

\* C11: two runs on the same loaded frame with the same years and regions
\* selected bind identical tables (reg_overall, stats, annual_totals_sorted):
\* the tables depend on the loaded frame and the selection alone, whatever
\* runs came between, and a rerun changes nothing; and no run changes the
\* loaded frame, the column line 463 adds going to df_filtered, a copy.
C11_RerunIsIdempotent == []TablesOfLoadedAndSelected /\ [][RerunIsTheSame]_vars

\* A later run of a session (a region has been taken out of the selection)
\* whose table has two regions of equal weight, which added month_num to
\* df_filtered at line 463 and ran to the end, the loaded frame being without
\* that column.
C11_Witness ==
    /\ HasStatistics
    /\ \E i, j \in DOMAIN run.reg_overall :
            i # j /\ run.reg_overall[i].peso_kg = run.reg_overall[j].peso_kg
    /\ "month_num" \in run.frames["df_filtered"]
    /\ "month_num" \notin cache.df.columns
    /\ run.outcome = "done"
    /\ selected_regions # Range(regions_available(cache.df))

\* C12, on a file with every column, every date valid and every weight
\* positive: whenever the tables are computed, with one ranked region or more,
\* the bounds of the top-N slider are in order (minimum <= default <= maximum),
\* the run does not end in the error handler, and the charts of the tabs after
\* the slider (FAO zone, month, data explorer) are displayed.
C12_SliderBoundsValid ==
    (HasStatistics /\ Len(run.region_rank) >= 1 /\ PositiveWeights
        /\ Columns \subseteq file.columns /\ InvalidDateRows = {}) =>
        /\ SliderMin <= SliderDefault(Len(run.region_rank))
        /\ SliderDefault(Len(run.region_rank)) <= SliderMax(Len(run.region_rank))
        /\ run.outcome = "done"
        /\ {"top_n", "fig_fao", "fig_month", "describe", "raw_data"} \subseteq run.shown

====
